---- MODULE Spec2Model ----
(***************************************************************************)
(* A model of range_lock (src/range_lock.hh), built with the shared-mutex  *)
(* (C++14) variant of struct region.  Integers are unsigned and Width bits *)
(* wide, region ids are offsets divided by _region_size.  Every function   *)
(* of the class that takes _regions_lock is split at the lock_guard: one   *)
(* step takes the lock, the next runs the body and releases it.  A region  *)
(* mutex operation is one step.                                            *)
(***************************************************************************)
EXTENDS Integers, Sequences, FiniteSets, TLC

\* ------------------------------------------------------------- bounds
Width == 3
NThreads == 2
MaxOffset == 2
MaxLength == 3
MaxRegionExp == 1
MaxFailedTry == 1
MaxHeld == 2

Threads == 1..NThreads
NoThread == 0
Mod == 2 ^ Width
MaxU == Mod - 1
Offsets == (0..MaxOffset) \cup {MaxU}
Lengths == (0..MaxLength) \cup {MaxU}
RegionSizes == {2 ^ e : e \in 1..MaxRegionExp}

VARIABLES
    region_size,            \* _region_size
    regions,                \* _regions: id -> [refcount, writer, readers]
    regions_lock,           \* _regions_lock: the thread holding it, or NoThread
    aborted,                \* an assert failed: the process is gone
    pc,                     \* where each thread is
    op,                     \* the entry point each thread is in
    offset, length,         \* its arguments
    idx,                    \* the loop index i of do_for_each_region / of the rollback loop
    locked_region_ids,      \* generic_try_lock's vector
    failed_to_lock_region,  \* generic_try_lock's flag
    visited,                \* the ids for_each_region has passed to f in this call
    scoped,                 \* the call is made by with_lock / with_lock_shared
    result,                 \* how the last call of the thread ended
    held,                   \* the caller's view: ranges acquired and not yet released
    misuse,                 \* the current unlock is of a range the caller does not hold
    nfailed                 \* number of try_lock calls that returned false

vars == <<region_size, regions, regions_lock, aborted, pc, op, offset, length, idx,
          locked_region_ids, failed_to_lock_region, visited, scoped, result, held,
          misuse, nfailed>>

\* ------------------------------------------------ unsigned arithmetic
RECURSIVE BitAnd(_, _)
BitAnd(a, b) ==
    IF a = 0 \/ b = 0 THEN 0
    ELSE (a % 2) * (b % 2) + 2 * BitAnd(a \div 2, b \div 2)

BitNot(a) == MaxU - a

Add(a, b) == (a + b) % Mod

Sub(a, b) == (a + Mod - b) % Mod

Mul(a, b) == (a * b) % Mod

\* ------------------------------------------------------- range mapper
get_region_id(o) == o \div region_size

aligned_down_offset(o) == BitAnd(o, BitNot(Sub(region_size, 1)))

aligned_up_length(l) ==
    BitAnd(Sub(Add(l, region_size), 1), BitNot(Sub(region_size, 1)))

\* do_for_each_region: the number of iterations, and the id passed to f at iteration i
NumRegions(o, l) == aligned_up_length(l) \div region_size

\* Faulty variant: the loop index is not scaled by the region size
RegionAtNoStride(o, i) == get_region_id(Add(aligned_down_offset(o), i))

RegionAt(o, i) == get_region_id(Add(aligned_down_offset(o), Mul(i, region_size)))

RegionIds(o, l) == [k \in 1..NumRegions(o, l) |-> RegionAt(o, k - 1)]

\* Faulty variant: the overflow check is missing
validate_parameters_no_overflow_check(o, l) == l > 0

validate_parameters(o, l) == l > 0 /\ o < Add(o, l)

\* ------------------------------------------------------- region mutex
NewRegion == [refcount |-> 0, writer |-> NoThread, readers |-> {}]

\* Faulty variant: exclusive ownership is granted while readers own the mutex
CanLockIgnoresReaders(m) == m.writer = NoThread

CanLock(m) == m.writer = NoThread /\ m.readers = {}

CanLockShared(m) == m.writer = NoThread

\* std::shared_timed_mutex::lock()/lock_shared() called by t: the ways it can end.
\* Relocking a mutex the caller already owns is undefined: it blocks for ever or
\* fails with resource_deadlock_would_occur, which nothing catches.
LockOutcomes(m, t, sh) ==
    (IF (IF sh THEN CanLockShared(m) ELSE CanLock(m)) THEN {"acquired"} ELSE {})
    \cup (IF ~sh /\ m.writer = t THEN {"throws"} ELSE {})

MutexAcquire(m, t, sh) ==
    IF sh THEN [m EXCEPT !.readers = @ \cup {t}] ELSE [m EXCEPT !.writer = t]

\* Faulty variant: unlock leaves the mutex as it is
UnlockOutcomesKeepsOwner(m, t, sh) == {m}

\* unlock()/unlock_shared() by t.  Unlocking a mutex the caller does not own is
\* undefined: the mutex is left as it is or loses one of its owners.
UnlockOutcomes(m, t, sh) ==
    IF sh
    THEN IF t \in m.readers
         THEN {[m EXCEPT !.readers = @ \ {t}]}
         ELSE {m} \cup {[m EXCEPT !.readers = @ \ {u}] : u \in m.readers}
    ELSE IF m.writer = t
         THEN {[m EXCEPT !.writer = NoThread]}
         ELSE {m, [m EXCEPT !.writer = NoThread]}

\* ------------------------------------------------------------ helpers
IsShared(o) == o \in {"lock_shared", "try_lock_shared", "unlock_shared"}

IsTry(o) == o \in {"try_lock", "try_lock_shared"}

IsUnlock(o) == o \in {"unlock", "unlock_shared"}

\* Faulty variant: a shared range is released through unlock()
UnlockOfAlwaysExclusive(sh) == "unlock"

UnlockOf(sh) == IF sh THEN "unlock_shared" ELSE "unlock"

Range(o, l, sh) == [off |-> o, len |-> l, shared |-> sh]

\* Faulty variant: the shared entry points walk the regions of a request downwards
CurrentRegionSharedDescending(t) ==
    IF failed_to_lock_region[t]
    THEN locked_region_ids[t][idx[t] + 1]
    ELSE IF IsShared(op[t])
         THEN RegionAt(offset[t], NumRegions(offset[t], length[t]) - 1 - idx[t])
         ELSE RegionAt(offset[t], idx[t])

\* The region the thread is working on: the id do_for_each_region passes to f, or,
\* in generic_try_lock's rollback loop, the next element of locked_region_ids.
CurrentRegion(t) ==
    IF failed_to_lock_region[t]
    THEN locked_region_ids[t][idx[t] + 1]
    ELSE RegionAt(offset[t], idx[t])

\* The number of iterations of the loop the thread is in.
LoopLimit(t) ==
    IF failed_to_lock_region[t]
    THEN Len(locked_region_ids[t])
    ELSE NumRegions(offset[t], length[t])

\* Faulty variant: the rollback skips the first region it locked
RollbackIdsSkipFirst(ids) == SubSeq(ids, 2, Len(ids))

\* generic_try_lock: the ids to unlock when a region could not be locked.
RollbackIds(ids) == ids

\* A thread is inside mutex.lock() of region id, asking for exclusive ownership.
PendingWriter(u, id) ==
    /\ pc[u] = "mutex_lock"
    /\ ~IsShared(op[u])
    /\ CurrentRegion(u) = id

\* Faulty variant: an attempt may fail although the mutex could be taken
TryOutcomesMayFailSpuriously(m, t, sh, id) ==
    {FALSE} \cup {IF sh THEN CanLockShared(m) ELSE CanLock(m)}

\* try_lock()/try_lock_shared(): the values it can return.  try_lock_shared may
\* give way to a writer that is waiting (writer preference) or not.
TryOutcomes(m, t, sh, id) ==
    IF sh
    THEN IF ~CanLockShared(m) THEN {FALSE}
         ELSE IF \E u \in Threads \ {t} : PendingWriter(u, id) THEN {TRUE, FALSE}
         ELSE {TRUE}
    ELSE {CanLock(m)}

\* ------------------------------------------------------ initial state
Init ==
    /\ region_size \in RegionSizes
    /\ regions = << >>
    /\ regions_lock = NoThread
    /\ aborted = FALSE
    /\ pc = [t \in Threads |-> "idle"]
    /\ op = [t \in Threads |-> "none"]
    /\ offset = [t \in Threads |-> 0]
    /\ length = [t \in Threads |-> 0]
    /\ idx = [t \in Threads |-> 0]
    /\ locked_region_ids = [t \in Threads |-> << >>]
    /\ failed_to_lock_region = [t \in Threads |-> FALSE]
    /\ visited = [t \in Threads |-> << >>]
    /\ scoped = [t \in Threads |-> FALSE]
    /\ result = [t \in Threads |-> "none"]
    /\ held = [t \in Threads |-> {}]
    /\ misuse = [t \in Threads |-> FALSE]
    /\ nfailed = 0

\* -------------------------------------------------- returns and calls
\* An assert of thread t fails inside entry point o: abort() ends the process.  The
\* threads are gone; what is kept is the call that failed and the region table as
\* it was.
Abort(t, o, off, len, mis) ==
    /\ aborted' = TRUE
    /\ pc' = [u \in Threads |-> "aborted"]
    /\ op' = [u \in Threads |-> IF u = t THEN o ELSE "none"]
    /\ offset' = [u \in Threads |-> IF u = t THEN off ELSE 0]
    /\ length' = [u \in Threads |-> IF u = t THEN len ELSE 0]
    /\ misuse' = [u \in Threads |-> u = t /\ mis]
    /\ idx' = [u \in Threads |-> 0]
    /\ locked_region_ids' = [u \in Threads |-> << >>]
    /\ failed_to_lock_region' = [u \in Threads |-> FALSE]
    /\ visited' = [u \in Threads |-> << >>]
    /\ scoped' = [u \in Threads |-> FALSE]
    /\ result' = [u \in Threads |-> "none"]
    /\ held' = [u \in Threads |-> {}]
    /\ nfailed' = 0
    /\ UNCHANGED <<region_size, regions, regions_lock>>

\* Entry point o of thread t returns res; hb is what the caller held before.
Return(t, o, off, len, sc, res, hb) ==
    /\ pc' = [pc EXCEPT ![t] = IF sc /\ ~IsUnlock(o) THEN "func" ELSE "idle"]
    /\ held' = [held EXCEPT ![t] =
                  IF ~IsUnlock(o) /\ ~sc /\ res # "false"
                  THEN hb \cup {Range(off, len, IsShared(o))}
                  ELSE hb]
    /\ result' = [result EXCEPT ![t] = res]
    /\ nfailed' = IF res = "false" THEN nfailed + 1 ELSE nfailed

\* The arguments a thread keeps once its call has returned: those of an acquisition
\* stay (the caller unlocks with them), those of an unlock are dropped.
Forget(t) ==
    /\ op' = [op EXCEPT ![t] = "none"]
    /\ offset' = [offset EXCEPT ![t] = 0]
    /\ length' = [length EXCEPT ![t] = 0]
    /\ visited' = [visited EXCEPT ![t] = << >>]

\* Thread t calls entry point o with (off, len): validate_parameters, then the
\* head of do_for_each_region's loop.
BeginCall(t, o, off, len, sc, mis, hb) ==
    IF ~validate_parameters(off, len)
    THEN Abort(t, o, off, len, mis)
    ELSE /\ idx' = [idx EXCEPT ![t] = 0]
         /\ locked_region_ids' = [locked_region_ids EXCEPT ![t] = << >>]
         /\ failed_to_lock_region' = [failed_to_lock_region EXCEPT ![t] = FALSE]
         /\ scoped' = [scoped EXCEPT ![t] = sc]
         /\ misuse' = [misuse EXCEPT ![t] = mis]
         /\ UNCHANGED <<region_size, regions, regions_lock, aborted>>
         /\ IF NumRegions(off, len) = 0
            THEN /\ Return(t, o, off, len, sc, IF IsTry(o) THEN "true" ELSE "ok", hb)
                 /\ IF IsUnlock(o)
                    THEN Forget(t)
                    ELSE /\ op' = [op EXCEPT ![t] = o]
                         /\ offset' = [offset EXCEPT ![t] = off]
                         /\ length' = [length EXCEPT ![t] = len]
                         /\ visited' = [visited EXCEPT ![t] = << >>]
            ELSE /\ pc' = [pc EXCEPT ![t] =
                             IF IsUnlock(o) THEN "get_locked_region"
                             ELSE "get_and_lock_region"]
                 /\ op' = [op EXCEPT ![t] = o]
                 /\ offset' = [offset EXCEPT ![t] = off]
                 /\ length' = [length EXCEPT ![t] = len]
                 /\ visited' = [visited EXCEPT ![t] = << >>]
                 /\ held' = [held EXCEPT ![t] = hb]
                 /\ result' = [result EXCEPT ![t] = "none"]
                 /\ UNCHANGED nfailed

\* A caller with nothing outstanding acquires a range.
CallAcquire(t) ==
    /\ ~aborted
    /\ pc[t] = "idle"
    /\ held[t] = {}
    /\ \E o \in {"lock", "try_lock", "lock_shared", "try_lock_shared"},
          off \in Offsets, len \in Lengths :
          /\ IsTry(o) => nfailed < MaxFailedTry
          /\ BeginCall(t, o, off, len, FALSE, FALSE, held[t])

\* A caller releases a range it holds, with the arguments it was locked with.
CallRelease(t) ==
    /\ ~aborted
    /\ pc[t] = "idle"
    /\ \E h \in held[t] :
          BeginCall(t, UnlockOf(h.shared), h.off, h.len, FALSE, FALSE, held[t] \ {h})

\* A caller calls unlock or unlock_shared with a zero length or with an offset and
\* a length whose sum overflows.
CallUnlockInvalid(t) ==
    /\ ~aborted
    /\ pc[t] = "idle"
    /\ \E sh \in BOOLEAN, off \in Offsets, len \in Lengths :
          /\ ~(len > 0 /\ off + len < Mod)
          /\ BeginCall(t, UnlockOf(sh), off, len, FALSE, TRUE, held[t])

\* ------------------------------------------------------ the map, locked
\* std::lock_guard<std::mutex> lock(_regions_lock) on entry of get_and_lock_region
EnterGetAndLockRegion(t) ==
    /\ ~aborted
    /\ pc[t] = "get_and_lock_region"
    /\ regions_lock = NoThread
    /\ regions_lock' = t
    /\ pc' = [pc EXCEPT ![t] = "get_and_lock_region_cs"]
    /\ UNCHANGED <<region_size, regions, aborted, op, offset, length, idx,
                   locked_region_ids, failed_to_lock_region, visited, scoped, result,
                   held, misuse, nfailed>>

\* Faulty variant: get_and_lock_region counts only the caller that inserts the entry
RegionsAfterGetCountsFirstOnly(rs, id) ==
    IF id \in DOMAIN rs
    THEN rs
    ELSE [x \in DOMAIN rs \cup {id} |->
            IF x = id THEN [NewRegion EXCEPT !.refcount = 1] ELSE rs[x]]

\* get_and_lock_region: the map after find / insert / refcount++
RegionsAfterGet(rs, id) ==
    [x \in DOMAIN rs \cup {id} |->
        IF x = id
        THEN [(IF id \in DOMAIN rs THEN rs[id] ELSE NewRegion) EXCEPT !.refcount = @ + 1]
        ELSE rs[x]]

\* Faulty variant: unlock_region keeps the entry whose refcount reached zero
RegionsAfterUnlockNoErase(rs, id) == [rs EXCEPT ![id].refcount = @ - 1]

\* unlock_region: the map after --refcount and, at zero, erase
RegionsAfterUnlock(rs, id) ==
    IF rs[id].refcount - 1 = 0
    THEN [x \in DOMAIN rs \ {id} |-> rs[x]]
    ELSE [rs EXCEPT ![id].refcount = @ - 1]

\* Faulty variant: get_and_lock_region returns with _regions_lock still held
GetAndLockRegionKeepsLock(t) ==
    /\ ~aborted
    /\ pc[t] = "get_and_lock_region_cs"
    /\ regions_lock = t
    /\ regions' = RegionsAfterGet(regions, CurrentRegion(t))
    /\ visited' = [visited EXCEPT ![t] = Append(@, CurrentRegion(t))]
    /\ pc' = [pc EXCEPT ![t] = IF IsTry(op[t]) THEN "mutex_try_lock" ELSE "mutex_lock"]
    /\ UNCHANGED <<region_size, regions_lock, aborted, op, offset, length, idx,
                   locked_region_ids, failed_to_lock_region, scoped, result, held,
                   misuse, nfailed>>

\* The body of get_and_lock_region and the end of its lock_guard.
GetAndLockRegion(t) ==
    /\ ~aborted
    /\ pc[t] = "get_and_lock_region_cs"
    /\ regions_lock = t
    /\ regions' = RegionsAfterGet(regions, CurrentRegion(t))
    /\ regions_lock' = NoThread
    /\ visited' = [visited EXCEPT ![t] = Append(@, CurrentRegion(t))]
    /\ pc' = [pc EXCEPT ![t] = IF IsTry(op[t]) THEN "mutex_try_lock" ELSE "mutex_lock"]
    /\ UNCHANGED <<region_size, aborted, op, offset, length, idx, locked_region_ids,
                   failed_to_lock_region, scoped, result, held, misuse, nfailed>>

\* The loop of do_for_each_region (or of the rollback) moves on after iteration
\* idx[t], or ends and the entry point returns res.
NextIteration(t, res) ==
    IF idx[t] + 1 < LoopLimit(t)
    THEN /\ idx' = [idx EXCEPT ![t] = @ + 1]
         /\ pc' = [pc EXCEPT ![t] =
                     IF IsUnlock(op[t]) \/ failed_to_lock_region[t]
                     THEN "get_locked_region" ELSE "get_and_lock_region"]
         /\ UNCHANGED <<op, offset, length, visited, scoped, misuse, held, result, nfailed>>
    ELSE /\ UNCHANGED idx
         /\ Return(t, op[t], offset[t], length[t], scoped[t], res, held[t])
         /\ IF IsUnlock(op[t])
            THEN Forget(t) /\ UNCHANGED <<scoped, misuse>>
            ELSE UNCHANGED <<op, offset, length, visited, scoped, misuse>>

\* r.mutex.lock() / r.mutex.lock_shared() in lock and lock_shared: blocks until the
\* mutex can be taken.
MutexLock(t) ==
    /\ ~aborted
    /\ pc[t] = "mutex_lock"
    /\ LET id == CurrentRegion(t)
           sh == IsShared(op[t])
       IN  IF id \in DOMAIN regions
           THEN \E out \in LockOutcomes(regions[id], t, sh) :
                   IF out = "acquired"
                   THEN /\ regions' = [regions EXCEPT ![id] = MutexAcquire(@, t, sh)]
                        /\ NextIteration(t, "ok")
                        /\ UNCHANGED aborted
                        /\ UNCHANGED <<region_size, regions_lock, locked_region_ids,
                                       failed_to_lock_region>>
                   ELSE Abort(t, op[t], offset[t], length[t], misuse[t])
           ELSE \* the region was erased under the caller: a dangling reference
                /\ UNCHANGED <<regions, aborted>>
                /\ NextIteration(t, "ok")
                /\ UNCHANGED <<region_size, regions_lock, locked_region_ids,
                               failed_to_lock_region>>

\* try_lock_f and the callback generic_try_lock hands to for_each_region.
MutexTryLock(t) ==
    /\ ~aborted
    /\ pc[t] = "mutex_try_lock"
    /\ LET id == CurrentRegion(t)
           sh == IsShared(op[t])
       IN  \E acquired \in (IF id \in DOMAIN regions
                            THEN TryOutcomes(regions[id], t, sh, id)
                            ELSE {TRUE, FALSE}) :
              IF acquired
              THEN /\ regions' = IF id \in DOMAIN regions
                                 THEN [regions EXCEPT ![id] = MutexAcquire(@, t, sh)]
                                 ELSE regions
                   /\ locked_region_ids' = [locked_region_ids EXCEPT ![t] = Append(@, id)]
                   /\ UNCHANGED failed_to_lock_region
                   /\ NextIteration(t, "true")
              ELSE /\ failed_to_lock_region' = [failed_to_lock_region EXCEPT ![t] = TRUE]
                   /\ locked_region_ids' =
                         [locked_region_ids EXCEPT ![t] = RollbackIds(@)]
                   /\ UNCHANGED regions
                   /\ IF RollbackIds(locked_region_ids[t]) = << >>
                      THEN /\ Return(t, op[t], offset[t], length[t], scoped[t], "false",
                                     held[t])
                           /\ UNCHANGED idx
                      ELSE /\ pc' = [pc EXCEPT ![t] = "get_locked_region"]
                           /\ idx' = [idx EXCEPT ![t] = 0]
                           /\ UNCHANGED <<held, result, nfailed>>
                   /\ UNCHANGED <<op, offset, length, visited, scoped, misuse>>
    /\ UNCHANGED <<region_size, regions_lock, aborted>>

\* std::lock_guard on entry of get_locked_region
EnterGetLockedRegion(t) ==
    /\ ~aborted
    /\ pc[t] = "get_locked_region"
    /\ regions_lock = NoThread
    /\ regions_lock' = t
    /\ pc' = [pc EXCEPT ![t] = "get_locked_region_cs"]
    /\ UNCHANGED <<region_size, regions, aborted, op, offset, length, idx,
                   locked_region_ids, failed_to_lock_region, visited, scoped, result,
                   held, misuse, nfailed>>

\* get_locked_region's two assertions
RegionIsLocked(rs, id) == id \in DOMAIN rs /\ rs[id].refcount > 0

\* The body of get_locked_region and the end of its lock_guard.
GetLockedRegion(t) ==
    /\ ~aborted
    /\ pc[t] = "get_locked_region_cs"
    /\ regions_lock = t
    /\ IF RegionIsLocked(regions, CurrentRegion(t))
       THEN /\ regions_lock' = NoThread
            /\ pc' = [pc EXCEPT ![t] = "mutex_unlock"]
            /\ visited' = [visited EXCEPT ![t] =
                             IF failed_to_lock_region[t] THEN @
                             ELSE Append(@, CurrentRegion(t))]
            /\ UNCHANGED <<region_size, regions, aborted, op, offset, length, idx,
                           locked_region_ids, failed_to_lock_region, scoped, result,
                           held, misuse, nfailed>>
       ELSE Abort(t, op[t], offset[t], length[t], misuse[t])

\* r.mutex.unlock() / r.mutex.unlock_shared() in unlock, unlock_shared and unlock_f
MutexUnlock(t) ==
    /\ ~aborted
    /\ pc[t] = "mutex_unlock"
    /\ LET id == CurrentRegion(t)
       IN  IF id \in DOMAIN regions
           THEN \E m \in UnlockOutcomes(regions[id], t, IsShared(op[t])) :
                   regions' = [regions EXCEPT ![id] = m]
           ELSE UNCHANGED regions
    /\ pc' = [pc EXCEPT ![t] = "unlock_region"]
    /\ UNCHANGED <<region_size, regions_lock, aborted, op, offset, length, idx,
                   locked_region_ids, failed_to_lock_region, visited, scoped, result,
                   held, misuse, nfailed>>

\* std::lock_guard on entry of unlock_region
EnterUnlockRegion(t) ==
    /\ ~aborted
    /\ pc[t] = "unlock_region"
    /\ regions_lock = NoThread
    /\ regions_lock' = t
    /\ pc' = [pc EXCEPT ![t] = "unlock_region_cs"]
    /\ UNCHANGED <<region_size, regions, aborted, op, offset, length, idx,
                   locked_region_ids, failed_to_lock_region, visited, scoped, result,
                   held, misuse, nfailed>>

\* The body of unlock_region and the end of its lock_guard; then the loop goes on.
UnlockRegion(t) ==
    /\ ~aborted
    /\ pc[t] = "unlock_region_cs"
    /\ regions_lock = t
    /\ IF CurrentRegion(t) \in DOMAIN regions
       THEN /\ regions' = RegionsAfterUnlock(regions, CurrentRegion(t))
            /\ regions_lock' = NoThread
            /\ NextIteration(t, IF failed_to_lock_region[t] THEN "false" ELSE "ok")
            /\ UNCHANGED <<region_size, aborted, locked_region_ids,
                           failed_to_lock_region>>
       ELSE Abort(t, op[t], offset[t], length[t], misuse[t])

\* ------------------------------------------------------ specification
\* Threads that hold at most one range at a time and unlock what they locked.
Next ==
    \E t \in Threads :
        \/ CallAcquire(t)
        \/ CallRelease(t)
        \/ CallUnlockInvalid(t)
        \/ EnterGetAndLockRegion(t)
        \/ GetAndLockRegion(t)
        \/ MutexLock(t)
        \/ MutexTryLock(t)
        \/ EnterGetLockedRegion(t)
        \/ GetLockedRegion(t)
        \/ MutexUnlock(t)
        \/ EnterUnlockRegion(t)
        \/ UnlockRegion(t)

Spec == Init /\ [][Next]_vars

\* ------------------------------------------------- derived predicates
AcquireOps == {"lock", "try_lock", "lock_shared", "try_lock_shared"}

\* Thread t owns the mutex of region id (in either mode).
Owns(t, id) ==
    /\ id \in DOMAIN regions
    /\ (regions[id].writer = t \/ t \in regions[id].readers)

OwnsNothing(t) == \A id \in DOMAIN regions : ~Owns(t, id)

\* Thread t has returned from entry point o and has not called anything since.
Returned(t, o) == pc[t] = "idle" /\ op[t] = o /\ result[t] = "ok"

\* The bytes of two requests overlap.
BytesOverlap(h, g) == h.off < g.off + g.len /\ g.off < h.off + h.len

\* The ids the specification promises for (o, l): floor(o / region_size) up to
\* floor((o + l - 1) / region_size), ascending.
PromisedIds(o, l) ==
    [k \in 1..(((o + l - 1) \div region_size) - (o \div region_size) + 1) |->
        (o \div region_size) + k - 1]

\* Thread t is inside a blocking mutex.lock()/lock_shared() that cannot return now:
\* the mutex is owned in a conflicting mode, or (for a reader, under writer
\* preference) a writer is queued on it.
MayBlock(t) ==
    /\ pc[t] = "mutex_lock"
    /\ CurrentRegion(t) \in DOMAIN regions
    /\ LET m == regions[CurrentRegion(t)]
       IN  IF IsShared(op[t])
           THEN \/ ~CanLockShared(m)
                \/ \E u \in Threads \ {t} :
                      PendingWriter(u, CurrentRegion(t)) /\ ~CanLock(m)
           ELSE ~CanLock(m)

\* Thread t, blocked, waits for thread u to release (or to get and release) the mutex.
WaitsFor(t, u) ==
    /\ MayBlock(t)
    /\ LET id == CurrentRegion(t)
           m == regions[id]
       IN  \/ m.writer = u
           \/ ~IsShared(op[t]) /\ u \in m.readers
           \/ IsShared(op[t]) /\ u # t /\ PendingWriter(u, id)

\* Every thread of S is blocked on a mutex that another thread of S must release.
WaitCycle(S) == S # {} /\ \A t \in S : \E u \in S : WaitsFor(t, u)

\* ------------------------------------------------------------- claims

\* C1: two threads never both hold, from lock(), ranges whose bytes overlap.  (The
\* requests looked at are those for which lock() visits at least one region.)
C1_MutualExclusionOnBytes ==
    \A t \in Threads : \A u \in Threads \ {t} :
        (/\ Returned(t, "lock") /\ visited[t] # << >>
         /\ Returned(u, "lock") /\ visited[u] # << >>) =>
            ~BytesOverlap(Range(offset[t], length[t], FALSE),
                          Range(offset[u], length[u], FALSE))

\* C2: with one outstanding range per thread there is never a set of threads each
\* blocked on a region mutex that another thread of the set holds.
C2_NoDeadlock == \A S \in SUBSET Threads : ~WaitCycle(S)

\* A thread holding its first region waits for its second, which is owned by a
\* thread that is itself about to lock a further region.
C2_Witness ==
    \E t \in Threads : \E u \in Threads \ {t} :
        /\ WaitsFor(t, u)
        /\ idx[t] > 0
        /\ pc[u] = "mutex_lock"

C4_RefcountHygiene ==
    (regions_lock = NoThread /\ \A t \in Threads : pc[t] = "idle" /\ held[t] = {})
        => DOMAIN regions = {}

\* C5: the ids visited for a valid (offset, length) are exactly
\* floor(offset / region_size) .. floor((offset + length - 1) / region_size), ascending.
\* (The requests looked at are those for which at least one region is visited.)
C5_RegionCoverage ==
    \A t \in Threads :
        (/\ pc[t] = "idle" /\ op[t] \in AcquireOps /\ result[t] \in {"ok", "true"}
         /\ visited[t] # << >>) =>
            visited[t] = PromisedIds(offset[t], length[t])

\* C6: a lock_shared is kept waiting only by an exclusive owner, and no thread holds
\* a range from lock() while another holds the same range from lock_shared().
C6_SharedConcurrency ==
    /\ \A t \in Threads :
          (IsShared(op[t]) /\ MayBlock(t)) =>
              \E u \in Threads \ {t} :
                  \/ regions[CurrentRegion(t)].writer = u
                  \/ PendingWriter(u, CurrentRegion(t))
    /\ \A t \in Threads : \A u \in Threads \ {t} :
          ~ /\ Returned(t, "lock")
            /\ Returned(u, "lock_shared")
            /\ offset[t] = offset[u]
            /\ length[t] = length[u]

\* C8: a call with length = 0 or with offset + length overflowing is rejected at
\* once: it never enters the loop over regions, and the step that rejects it leaves
\* the region table, its refcounts and its mutexes as they were.
C8_ValidationFirst ==
    /\ [](\A t \in Threads :
            (op[t] # "none" /\ ~(length[t] > 0 /\ offset[t] + length[t] < Mod)) =>
                (pc[t] = "aborted" /\ visited[t] = << >>))
    /\ [][(\E t \in Threads :
              pc'[t] = "aborted" /\ ~(length'[t] > 0 /\ offset'[t] + length'[t] < Mod))
            => (regions' = regions /\ regions_lock' = regions_lock)]_vars

\* An unlock whose offset + length overflows has been rejected while regions exist.
C8_Witness ==
    \E t \in Threads :
        /\ pc[t] = "aborted"
        /\ IsUnlock(op[t])
        /\ length[t] > 0
        /\ offset[t] + length[t] >= Mod
        /\ DOMAIN regions # {}

\* ------------------------------------------------------ scoped helpers
\* with_lock / with_lock_shared: lock(offset, length), then func()
CallWithLock(t) ==
    /\ ~aborted
    /\ pc[t] = "idle"
    /\ \E o \in {"lock", "lock_shared"}, off \in Offsets, len \in Lengths :
          BeginCall(t, o, off, len, TRUE, FALSE, held[t])

\* func() returns: with_lock goes on to unlock(offset, length)
FuncReturns(t) ==
    /\ ~aborted
    /\ pc[t] = "func"
    /\ BeginCall(t, UnlockOf(IsShared(op[t])), offset[t], length[t], TRUE, FALSE, held[t])

\* func() throws: the exception leaves with_lock, whose unlock is not reached, and
\* ends the thread that called it
FuncThrows(t) ==
    /\ ~aborted
    /\ pc[t] = "func"
    /\ pc' = [pc EXCEPT ![t] = "exited"]
    /\ result' = [result EXCEPT ![t] = "threw"]
    /\ UNCHANGED <<region_size, regions, regions_lock, aborted, op, offset, length, idx,
                   locked_region_ids, failed_to_lock_region, visited, scoped, held,
                   misuse, nfailed>>

\* Threads that use the range lock through with_lock and with_lock_shared.
NextScoped ==
    \E t \in Threads :
        \/ CallWithLock(t)
        \/ FuncReturns(t)
        \/ FuncThrows(t)
        \/ EnterGetAndLockRegion(t)
        \/ GetAndLockRegion(t)
        \/ MutexLock(t)
        \/ EnterGetLockedRegion(t)
        \/ GetLockedRegion(t)
        \/ MutexUnlock(t)
        \/ EnterUnlockRegion(t)
        \/ UnlockRegion(t)

SpecScoped == Init /\ [][NextScoped]_vars

\* C7: when with_lock / with_lock_shared has been left, by return or by exception,
\* the caller owns no region mutex and the region table holds none of its refcounts.
C7_ScopedRelease ==
    /\ \A t \in Threads :
          (pc[t] \in {"idle", "exited"} /\ scoped[t]) => OwnsNothing(t)
    /\ (regions_lock = NoThread /\ \A t \in Threads : pc[t] \in {"idle", "exited"})
          => DOMAIN regions = {}

\* ------------------------------------------------------------- misuse
\* A caller unlocks a range it does not hold with these arguments.
CallUnlockNotHeld(t) ==
    /\ ~aborted
    /\ pc[t] = "idle"
    /\ \A u \in Threads : ~misuse[u]
    /\ \E sh \in BOOLEAN, off \in Offsets, len \in Lengths :
          /\ Range(off, len, sh) \notin held[t]
          /\ len > 0 /\ off + len < Mod
          /\ BeginCall(t, UnlockOf(sh), off, len, FALSE, TRUE, held[t])

\* A caller with nothing outstanding acquires a range with a blocking call.
CallLock(t) ==
    /\ ~aborted
    /\ pc[t] = "idle"
    /\ held[t] = {}
    /\ \E o \in {"lock", "lock_shared"}, off \in Offsets, len \in Lengths :
          BeginCall(t, o, off, len, FALSE, FALSE, held[t])

\* Threads that lock, unlock what they hold, and unlock what they do not hold.
NextMisuse ==
    \E t \in Threads :
        \/ CallLock(t)
        \/ CallRelease(t)
        \/ CallUnlockNotHeld(t)
        \/ EnterGetAndLockRegion(t)
        \/ GetAndLockRegion(t)
        \/ MutexLock(t)
        \/ EnterGetLockedRegion(t)
        \/ GetLockedRegion(t)
        \/ MutexUnlock(t)
        \/ EnterUnlockRegion(t)
        \/ UnlockRegion(t)

SpecMisuse == Init /\ [][NextMisuse]_vars

\* C9: an unlock of a range the caller does not hold aborts before it unlocks a
\* region mutex or decrements a refcount.  (The unlocks looked at are those that
\* visit at least one region.)
C9_UnlockNotHeldAborts ==
    \A t \in Threads :
        (misuse[t] /\ NumRegions(offset[t], length[t]) > 0) =>
            /\ pc[t] \in {"get_locked_region", "get_locked_region_cs", "aborted"}
            /\ idx[t] = 0

\* --------------------------------------------------- nested acquisition
\* A caller locks a range for exclusive ownership, whether or not it holds one.
CallLockNested(t) ==
    /\ ~aborted
    /\ pc[t] = "idle"
    /\ Cardinality(held[t]) < MaxHeld
    /\ \E off \in Offsets, len \in Lengths :
          /\ Range(off, len, FALSE) \notin held[t]
          /\ BeginCall(t, "lock", off, len, FALSE, FALSE, held[t])

\* Threads that may hold several ranges at a time.
NextNested ==
    \E t \in Threads :
        \/ CallLockNested(t)
        \/ CallRelease(t)
        \/ EnterGetAndLockRegion(t)
        \/ GetAndLockRegion(t)
        \/ MutexLock(t)
        \/ EnterGetLockedRegion(t)
        \/ GetLockedRegion(t)
        \/ MutexUnlock(t)
        \/ EnterUnlockRegion(t)
        \/ UnlockRegion(t)

SpecNested == Init /\ [][NextNested]_vars

\* C10 (as stated): whatever the threads hold when they call lock(), no thread is
\* ever in a cyclic or self wait on region mutexes.
C10_NeverBlockedForever ==
    \A t \in Threads : ~ \E S \in SUBSET Threads : t \in S /\ WaitCycle(S)

\* C10 (amended): every cyclic or self wait includes a thread that called lock()
\* while it still held an earlier range.
C10_CycleNeedsNestedHolder ==
    \A S \in SUBSET Threads :
        WaitCycle(S) => \E t \in S : held[t] # {}

\* Two threads, each holding a range, wait for each other.
C10_Witness ==
    \E S \in SUBSET Threads :
        /\ WaitCycle(S)
        /\ Cardinality(S) = 2
        /\ \A t \in S : held[t] # {}

\* --------------------------------------------------- order of acquisition
\* Thread t owns the mutex of region id in the mode entry point o asks for.
OwnsAs(t, id, o) ==
    /\ id \in DOMAIN regions
    /\ IF IsShared(o) THEN t \in regions[id].readers ELSE regions[id].writer = t

\* Thread t is inside the forward loop of lock, lock_shared, try_lock or
\* try_lock_shared.
Acquiring(t) ==
    /\ op[t] \in AcquireOps
    /\ ~failed_to_lock_region[t]
    /\ pc[t] \in {"get_and_lock_region", "get_and_lock_region_cs",
                  "mutex_lock", "mutex_try_lock"}

\* C11: within one call of lock, lock_shared, try_lock or try_lock_shared the
\* region ids handed to the callback are strictly ascending; while the call is at
\* (or blocked in) the mutex of its region number idx it owns every region it
\* visited before; and each step that gives a thread a region mutex gives it one
\* whose id is above every id the thread already owns.
C11_AscendingOrder ==
    /\ [](\A t \in Threads :
            Acquiring(t) =>
                /\ \A k \in 1..(Len(visited[t]) - 1) : visited[t][k] < visited[t][k + 1]
                /\ \A k \in 1..idx[t] : OwnsAs(t, visited[t][k], op[t]))
    /\ [][\A t \in Threads : \A id \in DOMAIN regions' :
              (Owns(t, id)' /\ ~Owns(t, id)) =>
                  \A j \in DOMAIN regions : Owns(t, j) => j < id]_vars

\* A thread that owns the first region of its request is kept waiting by the
\* owner of the second.
C11_Witness ==
    \E t \in Threads :
        /\ MayBlock(t)
        /\ idx[t] = 1
        /\ Owns(t, visited[t][1])
        /\ visited[t][1] < CurrentRegion(t)

\* ------------------------------------------------ the table and refcounts
\* C12: whenever _regions_lock is free every entry of _regions has a refcount
\* above zero (a region without an entry has none); an entry appears only in the
\* body of get_and_lock_region, with refcount 1, and disappears only in the body
\* of unlock_region, from refcount 1; a refcount never drops by more than one.
C12_TableRefcount ==
    /\ [](regions_lock = NoThread =>
            \A id \in DOMAIN regions : regions[id].refcount > 0)
    /\ [][
           /\ \A id \in DOMAIN regions' \ DOMAIN regions :
                /\ regions'[id].refcount = 1
                /\ \E t \in Threads :
                      pc[t] = "get_and_lock_region_cs" /\ CurrentRegion(t) = id
           /\ \A id \in DOMAIN regions \ DOMAIN regions' :
                /\ regions[id].refcount = 1
                /\ \E t \in Threads :
                      pc[t] = "unlock_region_cs" /\ CurrentRegion(t) = id
           /\ \A id \in DOMAIN regions \cap DOMAIN regions' :
                regions'[id].refcount # regions[id].refcount =>
                    \/ regions'[id].refcount = regions[id].refcount + 1
                    \/ /\ regions'[id].refcount = regions[id].refcount - 1
                       /\ regions'[id].refcount > 0
          ]_vars

\* A thread is about to give back its reference to a region that another thread,
\* inside mutex.lock(), also refers to: the entry will stay.
C12_Witness ==
    /\ regions_lock = NoThread
    /\ \E t \in Threads : \E u \in Threads \ {t} :
          /\ pc[t] = "unlock_region"
          /\ pc[u] = "mutex_lock"
          /\ CurrentRegion(u) = CurrentRegion(t)
          /\ regions[CurrentRegion(t)].refcount = 2

\* The refcount of region id; a region without an entry has none.
RefcountOf(id) == IF id \in DOMAIN regions THEN regions[id].refcount ELSE 0

\* Thread t holds region id or is in the middle of acquiring or releasing it: it
\* owns the mutex, or it is at the mutex operation that follows
\* get_and_lock_region(id), or it has unlocked the mutex and unlock_region(id) is
\* still to run.
Refers(t, id) ==
    \/ Owns(t, id)
    \/ /\ pc[t] \in {"mutex_lock", "mutex_try_lock", "unlock_region"}
       /\ CurrentRegion(t) = id

\* C13: whenever _regions_lock is free (and no assert has ended the process), the refcount of every region is the number
\* of callers that hold it or are in the middle of acquiring (or releasing) it; in
\* particular a try_lock that returned false has left no refcount behind.
C13_FailedTryLockNoNetEffect ==
    (~aborted /\ regions_lock = NoThread) =>
        \A id \in 0..MaxU :
            RefcountOf(id) = Cardinality({t \in Threads : Refers(t, id)})

\* ---------------------------------------------- try_lock seen by others
\* A caller, which may hold other ranges, makes one attempt at exclusive ownership
\* of a range none of whose regions it owns.
CallTryLockHolding(t) ==
    /\ ~aborted
    /\ pc[t] = "idle"
    /\ Cardinality(held[t]) < MaxHeld
    /\ nfailed < MaxFailedTry
    /\ \E off \in Offsets, len \in Lengths :
          /\ \A k \in 1..NumRegions(off, len) : ~Owns(t, RegionAt(off, k - 1))
          /\ BeginCall(t, "try_lock", off, len, FALSE, FALSE, held[t])

\* A caller with nothing outstanding locks a range for exclusive ownership.
CallLockExclusive(t) ==
    /\ ~aborted
    /\ pc[t] = "idle"
    /\ held[t] = {}
    /\ \E off \in Offsets, len \in Lengths :
          BeginCall(t, "lock", off, len, FALSE, FALSE, held[t])

\* Threads that lock a range with lock() and, holding it or not, try to lock
\* another with try_lock().
NextTryHolding ==
    \E t \in Threads :
        \/ CallLockExclusive(t)
        \/ CallTryLockHolding(t)
        \/ CallRelease(t)
        \/ EnterGetAndLockRegion(t)
        \/ GetAndLockRegion(t)
        \/ MutexLock(t)
        \/ MutexTryLock(t)
        \/ EnterGetLockedRegion(t)
        \/ GetLockedRegion(t)
        \/ MutexUnlock(t)
        \/ EnterUnlockRegion(t)
        \/ UnlockRegion(t)

SpecTryHolding == Init /\ [][NextTryHolding]_vars

\* Thread u is in generic_try_lock's rollback loop: its call is going to return
\* false, and it still owns the regions it has not unlocked yet.
RollingBack(u) ==
    /\ failed_to_lock_region[u]
    /\ pc[u] \in {"get_locked_region", "get_locked_region_cs", "mutex_unlock"}

\* C14: a region mutex owned by a try_lock / try_lock_shared call that is going to
\* return false keeps no lock() or lock_shared() of another thread waiting, and
\* makes no try_lock / try_lock_shared of another thread fail.
C14_NoPartialSuccessObservable ==
    /\ [](\A t \in Threads : \A u \in Threads \ {t} :
            ~(WaitsFor(t, u) /\ RollingBack(u) /\ Owns(u, CurrentRegion(t))))
    /\ [][\A t \in Threads : \A u \in Threads \ {t} :
              (/\ pc[t] = "mutex_try_lock"
               /\ ~failed_to_lock_region[t]
               /\ failed_to_lock_region'[t]) =>
                  ~(RollingBack(u) /\ Owns(u, CurrentRegion(t)))]_vars

\* ------------------------------------------------- the structural lock
\* Thread t is inside one of the three lock_guard scopes.
InCriticalSection(t) ==
    pc[t] \in {"get_and_lock_region_cs", "get_locked_region_cs", "unlock_region_cs"}

\* Thread t is at an operation on a region's own mutex.
AtRegionMutex(t) == pc[t] \in {"mutex_lock", "mutex_try_lock", "mutex_unlock"}

\* C15: while the process runs, _regions_lock is held only inside the bodies of
\* get_and_lock_region, get_locked_region and unlock_region, never by a thread
\* that is locking, try-locking or unlocking a region mutex; and a thread kept
\* waiting inside lock() / lock_shared() waits for a region that another thread
\* owns or is waiting for, never for a region nobody else uses.
C15_StructuralLockNotHeldAcross ==
    ~aborted =>
        /\ \A t \in Threads :
              /\ regions_lock = t => InCriticalSection(t)
              /\ AtRegionMutex(t) => regions_lock # t
        /\ \A t \in Threads :
              MayBlock(t) =>
                  \E u \in Threads \ {t} :
                      \/ Owns(u, CurrentRegion(t))
                      \/ pc[u] = "mutex_lock" /\ CurrentRegion(u) = CurrentRegion(t)

\* While one thread is kept waiting for a region mutex, another is inside
\* get_and_lock_region for a different region.
C15_Witness ==
    \E t \in Threads : \E u \in Threads \ {t} :
        /\ MayBlock(t)
        /\ regions_lock = u
        /\ pc[u] = "get_and_lock_region_cs"
        /\ CurrentRegion(u) # CurrentRegion(t)

\* ------------------------------------------------------ region lifetime
\* The regions thread t holds a reference to: the one of the mutex operation or
\* unlock_region call it is at, those it has locked in the call in progress, and
\* those of the range it holds or is releasing.
ReferredRegions(t) ==
    (IF pc[t] \in {"mutex_lock", "mutex_try_lock", "mutex_unlock",
                   "unlock_region", "unlock_region_cs"}
     THEN {CurrentRegion(t)} ELSE {})
    \cup
    (IF failed_to_lock_region[t]
     THEN IF RollingBack(t) \/ pc[t] \in {"unlock_region", "unlock_region_cs"}
          THEN {locked_region_ids[t][k] : k \in (idx[t] + 1)..Len(locked_region_ids[t])}
          ELSE {}
     ELSE IF op[t] \in AcquireOps
          THEN IF pc[t] = "idle"
               THEN {visited[t][k] : k \in 1..Len(visited[t])}
               ELSE {visited[t][k] : k \in 1..idx[t]}
          ELSE IF IsUnlock(op[t])
               THEN {RegionAt(offset[t], i) :
                        i \in idx[t]..(NumRegions(offset[t], length[t]) - 1)}
               ELSE {})

\* C16: while callers unlock only ranges they hold, with the arguments they locked
\* them with, every region a thread holds a reference to has an entry in the table
\* with a refcount above zero, and the process is ended by no assert other than
\* those of validate_parameters.
C16_RegionLifetime ==
    /\ ~aborted =>
          \A t \in Threads : \A id \in ReferredRegions(t) :
              RegionIsLocked(regions, id)
    /\ aborted =>
          \E t \in Threads :
              op[t] # "none" /\ ~validate_parameters(offset[t], length[t])

\* A thread is about to drop its reference to a region for which another thread
\* is inside mutex.lock().
C16_Witness ==
    \E t \in Threads : \E u \in Threads \ {t} :
        /\ pc[t] = "unlock_region_cs"
        /\ pc[u] = "mutex_lock"
        /\ CurrentRegion(u) = CurrentRegion(t)
        /\ ~Owns(t, CurrentRegion(t))

\* ------------------------------------------------ exclusion on regions
\* The region ids thread t has acquired in its outstanding acquisition: all it
\* visited once the call has returned with success, those before the current one
\* while the call is in its forward loop.
HeldIds(t) ==
    IF op[t] \in AcquireOps /\ ~failed_to_lock_region[t]
    THEN IF pc[t] = "idle" /\ result[t] \in {"ok", "true"}
         THEN {visited[t][k] : k \in 1..Len(visited[t])}
         ELSE IF Acquiring(t)
              THEN {visited[t][k] : k \in 1..idx[t]}
              ELSE {}
    ELSE {}

\* C17: no region id is acquired by two callers at once unless both asked for
\* shared ownership, and no region mutex has a writer and readers together.
C17_RegionExclusion ==
    /\ \A t \in Threads : \A u \in Threads \ {t} :
          \A id \in HeldIds(t) \cap HeldIds(u) :
              IsShared(op[t]) /\ IsShared(op[u])
    /\ \A id \in DOMAIN regions :
          regions[id].writer # NoThread => regions[id].readers = {}

\* A lock() is kept waiting by the holder of a range that shares a region, but no
\* byte, with the range asked for.
C17_Witness ==
    \E t \in Threads : \E u \in Threads \ {t} :
        /\ Returned(t, "lock")
        /\ op[u] = "lock"
        /\ MayBlock(u)
        /\ CurrentRegion(u) \in HeldIds(t)
        /\ ~BytesOverlap(Range(offset[t], length[t], FALSE),
                         Range(offset[u], length[u], FALSE))

\* ------------------------------------------------------------ progress
\* A thread makes its one acquisition, with arguments validate_parameters accepts.
CallAcquireOnce(t) ==
    /\ ~aborted
    /\ pc[t] = "idle"
    /\ result[t] = "none"
    /\ held[t] = {}
    /\ \E o \in AcquireOps, off \in Offsets, len \in Lengths :
          /\ validate_parameters(off, len)
          /\ BeginCall(t, o, off, len, FALSE, FALSE, held[t])

\* What a running thread does by itself: the steps of the call it is in, and the
\* release of the range it holds.
ThreadStep(t) ==
    \/ CallRelease(t)
    \/ EnterGetAndLockRegion(t)
    \/ GetAndLockRegion(t)
    \/ MutexLock(t)
    \/ MutexTryLock(t)
    \/ EnterGetLockedRegion(t)
    \/ GetLockedRegion(t)
    \/ MutexUnlock(t)
    \/ EnterUnlockRegion(t)
    \/ UnlockRegion(t)

NextLive == \E t \in Threads : CallAcquireOnce(t) \/ ThreadStep(t)

\* Each thread acquires at most once and releases what it holds; every thread that
\* can take a step eventually takes one.
SpecLive ==
    /\ Init
    /\ [][NextLive]_vars
    /\ \A t \in Threads : WF_vars(ThreadStep(t))

\* Thread t is inside lock() or lock_shared().
PendingLock(t) ==
    /\ op[t] \in {"lock", "lock_shared"}
    /\ pc[t] \in {"get_and_lock_region", "get_and_lock_region_cs", "mutex_lock"}

\* C18: lock() has returned only when the caller is the writer of every region
\* it visited; and when every thread keeps running, releases what it holds and
\* acquires finitely often, every lock() and lock_shared() in progress returns.
C18_BlockingLockCompletes ==
    /\ [](\A t \in Threads :
            Returned(t, "lock") =>
                \A k \in 1..Len(visited[t]) : OwnsAs(t, visited[t][k], "lock"))
    /\ \A t \in Threads :
          PendingLock(t) ~> (pc[t] = "idle" /\ result[t] = "ok")

\* A lock() is kept waiting by a thread that holds the region.
C18_Witness ==
    \E t \in Threads : \E u \in Threads \ {t} :
        /\ op[t] = "lock"
        /\ MayBlock(t)
        /\ Owns(u, CurrentRegion(t))
        /\ pc[u] = "idle"
        /\ held[u] # {}

\* ------------------------------------------------------------ rounding
\* C19: an acquisition that validate_parameters accepted and that has returned
\* with success visited at least ceil(length / region_size) regions, hence at
\* least one.
C19_AcceptedRequestLocksSomething ==
    \A t \in Threads :
        (pc[t] = "idle" /\ op[t] \in AcquireOps /\ result[t] \in {"ok", "true"}) =>
            /\ Len(visited[t]) >= 1
            /\ Len(visited[t]) * region_size >= length[t]

\* --------------------------------------------------- concurrent attempts
\* A thread makes its one call of try_lock.
CallTryLockOnce(t) ==
    /\ ~aborted
    /\ pc[t] = "idle"
    /\ result[t] = "none"
    /\ \E off \in Offsets, len \in Lengths :
          BeginCall(t, "try_lock", off, len, FALSE, FALSE, held[t])

\* From the empty table, every thread calls try_lock once; nothing else is called.
NextTryOnce ==
    \E t \in Threads :
        \/ CallTryLockOnce(t)
        \/ EnterGetAndLockRegion(t)
        \/ GetAndLockRegion(t)
        \/ MutexTryLock(t)
        \/ EnterGetLockedRegion(t)
        \/ GetLockedRegion(t)
        \/ MutexUnlock(t)
        \/ EnterUnlockRegion(t)
        \/ UnlockRegion(t)

SpecTryOnce == Init /\ [][NextTryOnce]_vars

====
